---- MODULE Spec2Model ----
(***************************************************************************)
(* scripts/update_antigravity_version.py: read the version recorded in the *)
(* tracked constants file, resolve the latest version from --version,      *)
(* --url or the live download page, compare, and rewrite the file.         *)
(*                                                                         *)
(* Text is a sequence of characters (one-character strings; a control      *)
(* character produced by an escape is a named token such as "LF").  The    *)
(* two regular expressions and re's replacement-template expansion are     *)
(* computed character by character, as Python computes them.               *)
(***************************************************************************)
EXTENDS Integers, Sequences, FiniteSets, TLC

\* Number of sequential runs of the script that are explored.
MaxRuns == 2

----------------------------------------------------------------------------
\* Optional values: Python's None and a present str.

None == [some |-> FALSE, val |-> <<>>]

Some(v) == [some |-> TRUE, val |-> v]

\* Python truthiness of an `str | None`: None and "" are both falsy.
Truthy(o) == o.some /\ o.val # <<>>

----------------------------------------------------------------------------
\* Characters

DIGITS == {"0", "1", "2", "3", "4", "5", "6", "7", "8", "9"}

OCTDIGITS == {"0", "1", "2", "3", "4", "5", "6", "7"}

ASCII_LETTERS ==
  {"a", "b", "c", "d", "e", "f", "g", "h", "i", "j", "k", "l", "m", "n", "o",
   "p", "q", "r", "s", "t", "u", "v", "w", "x", "y", "z"}

DigitValue(c) ==
  CASE c = "0" -> 0 [] c = "1" -> 1 [] c = "2" -> 2 [] c = "3" -> 3
    [] c = "4" -> 4 [] c = "5" -> 5 [] c = "6" -> 6 [] c = "7" -> 7
    [] c = "8" -> 8 [] c = "9" -> 9

\* chr(): the characters the two patterns tell apart, by code point; every
\* other code point is a character that neither pattern mentions.
Chr(code) ==
  CASE code = 10 -> "LF" [] code = 32 -> " " [] code = 45 -> "-"
    [] code = 46 -> "." [] code = 47 -> "/"
    [] code = 48 -> "0" [] code = 49 -> "1" [] code = 50 -> "2"
    [] code = 51 -> "3" [] code = 52 -> "4" [] code = 53 -> "5"
    [] code = 54 -> "6" [] code = 55 -> "7" [] code = 56 -> "8"
    [] code = 57 -> "9" [] code = 92 -> "\\"
    [] code = 97 -> "a" [] code = 103 -> "g" [] code = 105 -> "i"
    [] code = 110 -> "n" [] code = 114 -> "r" [] code = 116 -> "t"
    [] code = 118 -> "v" [] code = 121 -> "y"
    [] OTHER -> "?"

\* The literal head of VERSION_PATTERN and of the replacement f-string.
AG == <<"a", "n", "t", "i", "g", "r", "a", "v", "i", "t", "y", "/">>

----------------------------------------------------------------------------
\* Regular expressions

StartsWithAt(s, lit, i) ==
  /\ i + Len(lit) - 1 <= Len(s)
  /\ SubSeq(s, i, i + Len(lit) - 1) = lit

\* \d+ is greedy: the index just after the longest run of digits from i.
RECURSIVE DigitRunEnd(_, _)
DigitRunEnd(s, i) ==
  IF i <= Len(s) /\ s[i] \in DIGITS THEN DigitRunEnd(s, i + 1) ELSE i

\* (\d+\.\d+\.\d+) matched at i: the index just after the match, 0 when it
\* does not match.  A shorter digit run is followed by a digit, never by the
\* "." the pattern needs next, so backtracking finds no other match.
VersionTokenEnd(s, i) ==
  LET a == DigitRunEnd(s, i) IN
  IF a = i \/ a > Len(s) \/ s[a] # "." THEN 0
  ELSE LET b == DigitRunEnd(s, a + 1) IN
       IF b = a + 1 \/ b > Len(s) \/ s[b] # "." THEN 0
       ELSE LET c == DigitRunEnd(s, b + 1) IN
            IF c = b + 1 THEN 0 ELSE c

\* VERSION_PATTERN = antigravity/(\d+\.\d+\.\d+) matched at i.
VERSION_PATTERN_end(s, i) ==
  IF StartsWithAt(s, AG, i) THEN VersionTokenEnd(s, i + Len(AG)) ELSE 0

\* TARBALL_VERSION_PATTERN = /(\d+\.\d+\.\d+)-\d+/ matched at i: the index
\* just after group 1, 0 when the pattern does not match at i.
TARBALL_VERSION_PATTERN_end(s, i) ==
  IF i > Len(s) \/ s[i] # "/" THEN 0
  ELSE LET e == VersionTokenEnd(s, i + 1) IN
       IF e = 0 \/ e > Len(s) \/ s[e] # "-" THEN 0
       ELSE LET d == DigitRunEnd(s, e + 1) IN
            IF d = e + 1 \/ d > Len(s) \/ s[d] # "/" THEN 0 ELSE e

\* pattern.search: the leftmost position at which the pattern matches.
RECURSIVE VERSION_PATTERN_find(_, _)
VERSION_PATTERN_find(s, i) ==
  IF i > Len(s) THEN 0
  ELSE IF VERSION_PATTERN_end(s, i) # 0 THEN i
  ELSE VERSION_PATTERN_find(s, i + 1)

\* VERSION_PATTERN.search(content) and match.group(1).
VERSION_PATTERN_search(s) ==
  LET i == VERSION_PATTERN_find(s, 1) IN
  IF i = 0 THEN None
  ELSE Some(SubSeq(s, i + Len(AG), VERSION_PATTERN_end(s, i) - 1))

RECURSIVE TARBALL_VERSION_PATTERN_find(_, _)
TARBALL_VERSION_PATTERN_find(s, i) ==
  IF i > Len(s) THEN 0
  ELSE IF TARBALL_VERSION_PATTERN_end(s, i) # 0 THEN i
  ELSE TARBALL_VERSION_PATTERN_find(s, i + 1)

\* TARBALL_VERSION_PATTERN.search(url) and match.group(1).
TARBALL_VERSION_PATTERN_search(s) ==
  LET i == TARBALL_VERSION_PATTERN_find(s, 1) IN
  IF i = 0 THEN None
  ELSE Some(SubSeq(s, i + 1, TARBALL_VERSION_PATTERN_end(s, i) - 1))

----------------------------------------------------------------------------
\* The replacement template of pattern.sub(repl, string) with a str repl:
\* re parses repl into literal characters and group references before it
\* substitutes anything, and raises re.error (or IndexError) on a bad escape.

Lit(c) == [kind |-> "lit", ch |-> c, idx |-> 0]

Grp(n) == [kind |-> "grp", ch |-> "", idx |-> n]

TemplateError == [ok |-> FALSE, parts |-> <<>>]

\* The index of the first ">" at or after i, 0 when there is none.
RECURSIVE FindClose(_, _)
FindClose(t, i) ==
  IF i > Len(t) THEN 0
  ELSE IF t[i] = ">" THEN i
  ELSE FindClose(t, i + 1)

\* int(name) over decimal digits; -1 when name is not all digits.
RECURSIVE DecimalValue(_, _)
DecimalValue(name, acc) ==
  IF name = <<>> THEN acc
  ELSE IF Head(name) \notin DIGITS THEN -1
  ELSE DecimalValue(Tail(name), 10 * acc + DigitValue(Head(name)))

RECURSIVE OctalValue(_, _)
OctalValue(ds, acc) ==
  IF ds = <<>> THEN acc
  ELSE OctalValue(Tail(ds), 8 * acc + DigitValue(Head(ds)))

\* The single-letter escapes re knows in a template.
ESCAPES(c) ==
  CASE c = "a" -> "BEL" [] c = "b" -> "BS" [] c = "f" -> "FF"
    [] c = "n" -> "LF" [] c = "r" -> "CR" [] c = "t" -> "TAB"
    [] c = "v" -> "VT" [] c = "\\" -> "\\"
    [] OTHER -> ""

\* re._parser.parse_template over a pattern with `groups` groups and no
\* named group: the parts parsed from position i on, appended to acc.
RECURSIVE parse_template(_, _, _, _)
parse_template(t, i, groups, acc) ==
  IF i > Len(t) THEN [ok |-> TRUE, parts |-> acc]
  ELSE IF t[i] # "\\" THEN parse_template(t, i + 1, groups, Append(acc, Lit(t[i])))
  ELSE IF i = Len(t) THEN TemplateError            \* bad escape (end of pattern)
  ELSE LET c == t[i + 1] IN
    IF c = "g" THEN
      IF i + 2 > Len(t) \/ t[i + 2] # "<" THEN TemplateError       \* missing <
      ELSE LET close == FindClose(t, i + 3) IN
        IF close = 0 \/ close = i + 3 THEN TemplateError  \* missing >, no name
        ELSE LET index == DecimalValue(SubSeq(t, i + 3, close - 1), 0) IN
          \* a name that is no integer is an unknown or a malformed group name
          IF index < 0 \/ index > groups THEN TemplateError
          ELSE parse_template(t, close + 1, groups, Append(acc, Grp(index)))
    ELSE IF c = "0" THEN
      LET n1 == IF i + 2 <= Len(t) /\ t[i + 2] \in OCTDIGITS THEN 1 ELSE 0
          n2 == IF n1 = 1 /\ i + 3 <= Len(t) /\ t[i + 3] \in OCTDIGITS
                THEN 1 ELSE 0
          code == OctalValue(SubSeq(t, i + 1, i + 1 + n1 + n2), 0) % 256
      IN parse_template(t, i + 2 + n1 + n2, groups, Append(acc, Lit(Chr(code))))
    ELSE IF c \in DIGITS THEN
      IF i + 2 <= Len(t) /\ t[i + 2] \in DIGITS THEN
        IF /\ c \in OCTDIGITS /\ t[i + 2] \in OCTDIGITS
           /\ i + 3 <= Len(t) /\ t[i + 3] \in OCTDIGITS
        THEN LET code == OctalValue(SubSeq(t, i + 1, i + 3), 0) IN
             IF code > 255 THEN TemplateError
             ELSE parse_template(t, i + 4, groups, Append(acc, Lit(Chr(code))))
        ELSE LET index == DecimalValue(SubSeq(t, i + 1, i + 2), 0) IN
             IF index > groups THEN TemplateError    \* invalid group reference
             ELSE parse_template(t, i + 3, groups, Append(acc, Grp(index)))
      ELSE IF DigitValue(c) > groups THEN TemplateError
           ELSE parse_template(t, i + 2, groups, Append(acc, Grp(DigitValue(c))))
    ELSE IF ESCAPES(c) # "" THEN
      parse_template(t, i + 2, groups, Append(acc, Lit(ESCAPES(c))))
    ELSE IF c \in ASCII_LETTERS THEN TemplateError              \* bad escape
    ELSE parse_template(t, i + 2, groups, Append(Append(acc, Lit("\\")), Lit(c)))

\* The text a parsed template stands for, for the match s[i .. e-1] of
\* VERSION_PATTERN (group 0 the whole match, group 1 the version).
RECURSIVE expand_template(_, _, _, _)
expand_template(parts, s, i, e) ==
  IF parts = <<>> THEN <<>>
  ELSE LET p == Head(parts)
           piece == IF p.kind = "lit" THEN <<p.ch>>
                    ELSE IF p.idx = 0 THEN SubSeq(s, i, e - 1)
                    ELSE SubSeq(s, i + Len(AG), e - 1)
       IN piece \o expand_template(Tail(parts), s, i, e)

\* The scan of pattern.sub: every non-overlapping match, left to right, is
\* replaced; the text between matches is copied.
RECURSIVE VERSION_PATTERN_subFrom(_, _, _)
VERSION_PATTERN_subFrom(parts, s, i) ==
  IF i > Len(s) THEN <<>>
  ELSE LET e == VERSION_PATTERN_end(s, i) IN
       IF e # 0
       THEN expand_template(parts, s, i, e) \o VERSION_PATTERN_subFrom(parts, s, e)
       ELSE <<s[i]>> \o VERSION_PATTERN_subFrom(parts, s, i + 1)

\* VERSION_PATTERN.sub(repl, content): None when re raises on the template.
VERSION_PATTERN_sub(repl, content) ==
  LET t == parse_template(repl, 1, 1, <<>>) IN
  IF ~t.ok THEN None
  ELSE Some(VERSION_PATTERN_subFrom(t.parts, content, 1))

----------------------------------------------------------------------------
\* Inputs explored

V100 == <<"1", ".", "0", ".", "0">>

V101 == <<"1", ".", "0", ".", "1">>

V200 == <<"2", ".", "0", ".", "0">>

\* The tracked file constants.rs: absent, or present with some text.
Missing == [exists |-> FALSE, text |-> <<>>]

Present(t) == [exists |-> TRUE, text |-> t]

InitFiles ==
  { Missing,
    Present(<<"=">> \o AG \o V100 \o <<";">>),
    Present(<<"=">> \o AG \o V101 \o <<".", "7">>),
    Present(AG \o V100 \o <<" ">> \o AG \o V200),
    Present(<<"=", "x", ";">>) }

\* argv values of --version: valid tokens, "", a non-version word, and
\* strings with a backslash (\1, a lone \, \\, \g<0>).
VersionArgs ==
  { <<>>, V100, V101, <<"x">>,
    <<"\\", "1">>, <<"\\">>, <<"\\", "\\">>, <<"\\", "g", "<", "0", ">">> }

\* argv values of --url: "", a tarball URL, a URL with no build number.
UrlArgs ==
  { <<>>,
    <<"s", "/">> \o V101 \o <<"-", "7", "/", "A">>,
    <<"s", "/">> \o V101 \o <<"/", "A">> }

OptionalOf(S) == {None} \cup {Some(v) : v \in S}

\* argparse's Namespace: store_true flags default to False, the others to None.
Args ==
  [check : BOOLEAN, dry_run : BOOLEAN,
   version : OptionalOf(VersionArgs), url : OptionalOf(UrlArgs)]

NoArgs == [check |-> FALSE, dry_run |-> FALSE, version |-> None, url |-> None]

\* What the playwright collaborator can do: fail to import, raise while
\* rendering, or render the page and evaluate the selector to an href
\* (<<>> stands for null: no matching anchor).
PageResults ==
  { [status |-> "ImportError", href |-> <<>>],
    [status |-> "Exception", href |-> <<>>],
    [status |-> "rendered", href |-> <<>>],
    [status |-> "rendered", href |-> <<"s", "/">> \o V200 \o <<"-", "7", "/", "A">>],
    [status |-> "rendered", href |-> <<"s", "/">> \o V100 \o <<"-", "7", "/", "A">>],
    [status |-> "rendered", href |-> <<"s", "/", "A">>] }

\* CONSTANTS_PATH.write_text: it succeeds, or open() raises OSError and the
\* file is left as it was.
WriteResults == {"ok", "OSError"}

----------------------------------------------------------------------------
\* State

VARIABLES
  file,          \* the tracked file on disk
  pc,            \* where main() is: idle, read, resolve, compare, update, exit
  runs,          \* runs started so far
  args,          \* the parsed command line of the current run
  current,       \* main's local `current`
  latest,        \* main's local `latest`
  content,       \* update_version's local `content`
  new_content,   \* update_version's local `new_content`
  exit_code,     \* the process exit status, -1 while running
  outcome,       \* the branch on which the run ended
  reads,         \* read_text calls in this run
  writes,        \* write_text calls in this run
  url_parsed,    \* extract_version_from_url calls in this run
  fetched,       \* fetch_latest_version calls in this run
  file_at_start  \* the tracked file as it was when the run started

vars ==
  <<file, pc, runs, args, current, latest, content, new_content, exit_code,
    outcome, reads, writes, url_parsed, fetched, file_at_start>>

locals == <<current, latest, content, new_content>>

calls == <<reads, writes, url_parsed, fetched>>

Init ==
  /\ file \in InitFiles
  /\ pc = "idle"
  /\ runs = 0
  /\ args = NoArgs
  /\ current = None /\ latest = None /\ content = None /\ new_content = None
  /\ exit_code = -1
  /\ outcome = "none"
  /\ reads = 0 /\ writes = 0 /\ url_parsed = 0 /\ fetched = 0
  /\ file_at_start = file

\* sys.exit(code), or an uncaught exception (status 1).
Exit(code, how) ==
  /\ pc' = "exit"
  /\ exit_code' = code
  /\ outcome' = how

----------------------------------------------------------------------------
\* The functions of the script

\* get_current_version(): the version in constants.rs, None when the file
\* does not exist or holds no match.
get_current_version(f) ==
  IF ~f.exists THEN None ELSE VERSION_PATTERN_search(f.text)

\* extract_version_from_url(url)
extract_version_from_url(url) == TARBALL_VERSION_PATTERN_search(url)

\* fetch_latest_version(): None on ImportError, on any exception and on a
\* null href; else the version parsed from the href.
fetch_latest_version(page) ==
  IF page.status # "rendered" THEN None
  ELSE IF page.href = <<>> THEN None
  ELSE TARBALL_VERSION_PATTERN_search(page.href)

\* Variant of update_version without the dry_run test of lines 111-113.
update_version_IgnoresDryRun(new_version, dry_run, w) ==
  IF ~file.exists
  THEN /\ Exit(1, "Failed")
       /\ UNCHANGED <<file, content, new_content, reads, writes>>
  ELSE
    LET sub == VERSION_PATTERN_sub(AG \o new_version, file.text) IN
    /\ reads' = reads + 1
    /\ content' = Some(file.text)
    /\ new_content' = sub
    /\ IF ~sub.some
       THEN Exit(1, "Crashed") /\ UNCHANGED <<file, writes>>
       ELSE IF sub.val = file.text
       THEN Exit(0, "NoChangeNeeded") /\ UNCHANGED <<file, writes>>
       ELSE /\ writes' = writes + 1
            /\ IF w = "ok"
               THEN file' = Present(sub.val) /\ Exit(0, "Updated")
               ELSE UNCHANGED file /\ Exit(1, "Crashed")

\* Variant of update_version that reads the file back after writing it.
update_version_ReadsBack(new_version, dry_run, w) ==
  IF ~file.exists
  THEN /\ Exit(1, "Failed")
       /\ UNCHANGED <<file, content, new_content, reads, writes>>
  ELSE
    LET sub == VERSION_PATTERN_sub(AG \o new_version, file.text) IN
    /\ content' = Some(file.text)
    /\ new_content' = sub
    /\ IF ~sub.some
       THEN Exit(1, "Crashed") /\ reads' = reads + 1 /\ UNCHANGED <<file, writes>>
       ELSE IF sub.val = file.text
       THEN Exit(0, "NoChangeNeeded") /\ reads' = reads + 1
            /\ UNCHANGED <<file, writes>>
       ELSE IF dry_run
       THEN Exit(0, "WouldUpdate") /\ reads' = reads + 1
            /\ UNCHANGED <<file, writes>>
       ELSE /\ writes' = writes + 1
            /\ reads' = reads + 2
            /\ IF w = "ok"
               THEN file' = Present(sub.val) /\ Exit(0, "Updated")
               ELSE UNCHANGED file /\ Exit(1, "Crashed")

\* update_version(new_version, dry_run), and main's exit on its result; w is
\* what write_text does if it is called.  An exception raised by sub or by
\* write_text is not caught anywhere: the process ends with status 1.
update_version(new_version, dry_run, w) ==
  IF ~file.exists
  THEN /\ Exit(1, "Failed")
       /\ UNCHANGED <<file, content, new_content, reads, writes>>
  ELSE
    LET sub == VERSION_PATTERN_sub(AG \o new_version, file.text) IN
    /\ reads' = reads + 1
    /\ content' = Some(file.text)
    /\ new_content' = sub
    /\ IF ~sub.some
       THEN Exit(1, "Crashed") /\ UNCHANGED <<file, writes>>
       ELSE IF sub.val = file.text
       THEN Exit(0, "NoChangeNeeded") /\ UNCHANGED <<file, writes>>
       ELSE IF dry_run
       THEN Exit(0, "WouldUpdate") /\ UNCHANGED <<file, writes>>
       ELSE /\ writes' = writes + 1
            /\ IF w = "ok"
               THEN file' = Present(sub.val) /\ Exit(0, "Updated")
               ELSE UNCHANGED file /\ Exit(1, "Crashed")

----------------------------------------------------------------------------
\* main()

\* The script is started with some command line.
StartRun ==
  /\ pc \in {"idle", "exit"}
  /\ runs < MaxRuns
  /\ runs' = runs + 1
  /\ \E a \in Args : args' = a
  /\ pc' = "read"
  /\ current' = None /\ latest' = None /\ content' = None /\ new_content' = None
  /\ exit_code' = -1
  /\ outcome' = "none"
  /\ reads' = 0 /\ writes' = 0 /\ url_parsed' = 0 /\ fetched' = 0
  /\ file_at_start' = file
  /\ UNCHANGED file

\* Variant of Main_ReadCurrent without the exit on a missing file.
Main_ReadCurrent_NoExit ==
  /\ pc = "read"
  /\ current' = get_current_version(file)
  /\ reads' = IF file.exists THEN reads + 1 ELSE reads
  /\ IF file.exists /\ ~get_current_version(file).some
     THEN Exit(1, "PatternNotFound")
     ELSE pc' = "resolve" /\ UNCHANGED <<exit_code, outcome>>
  /\ UNCHANGED <<file, runs, args, latest, content, new_content, writes,
                 url_parsed, fetched, file_at_start>>

\* current = get_current_version(); if not current: sys.exit(1)
Main_ReadCurrent ==
  /\ pc = "read"
  /\ current' = get_current_version(file)
  /\ reads' = IF file.exists THEN reads + 1 ELSE reads
  /\ IF ~file.exists THEN Exit(1, "MissingFile")
     ELSE IF ~Truthy(get_current_version(file)) THEN Exit(1, "PatternNotFound")
     ELSE pc' = "resolve" /\ UNCHANGED <<exit_code, outcome>>
  /\ UNCHANGED <<file, runs, args, latest, content, new_content, writes,
                 url_parsed, fetched, file_at_start>>

\* if args.version: latest = args.version
Main_ResolveVersion ==
  /\ pc = "resolve"
  /\ Truthy(args.version)
  /\ latest' = args.version
  /\ pc' = "compare"
  /\ UNCHANGED <<file, runs, args, current, content, new_content, exit_code,
                 outcome, calls, file_at_start>>

\* elif args.url: latest = extract_version_from_url(args.url)
Main_ResolveUrl ==
  /\ pc = "resolve"
  /\ ~Truthy(args.version)
  /\ Truthy(args.url)
  /\ url_parsed' = url_parsed + 1
  /\ latest' = extract_version_from_url(args.url.val)
  /\ IF ~Truthy(extract_version_from_url(args.url.val))
     THEN Exit(1, "UnparseableURL")
     ELSE pc' = "compare" /\ UNCHANGED <<exit_code, outcome>>
  /\ UNCHANGED <<file, runs, args, current, content, new_content, reads,
                 writes, fetched, file_at_start>>

\* else: latest = fetch_latest_version()
Main_ResolveFetch ==
  /\ pc = "resolve"
  /\ ~Truthy(args.version)
  /\ ~Truthy(args.url)
  /\ fetched' = fetched + 1
  /\ \E page \in PageResults :
       /\ latest' = fetch_latest_version(page)
       /\ IF ~Truthy(fetch_latest_version(page))
          THEN Exit(1, "FetchFailed")
          ELSE pc' = "compare" /\ UNCHANGED <<exit_code, outcome>>
  /\ UNCHANGED <<file, runs, args, current, content, new_content, reads,
                 writes, url_parsed, file_at_start>>

\* Variant of Main_Compare without the args.check test of lines 165-167.
Main_Compare_IgnoresCheck ==
  /\ pc = "compare"
  /\ IF current.val = latest.val THEN Exit(0, "UpToDate")
     ELSE pc' = "update" /\ UNCHANGED <<exit_code, outcome>>
  /\ UNCHANGED <<file, runs, args, locals, calls, file_at_start>>

\* if current == latest: exit 0; if args.check: exit 1; else update
Main_Compare ==
  /\ pc = "compare"
  /\ IF current.val = latest.val THEN Exit(0, "UpToDate")
     ELSE IF args.check THEN Exit(1, "UpdateAvailable")
     ELSE pc' = "update" /\ UNCHANGED <<exit_code, outcome>>
  /\ UNCHANGED <<file, runs, args, locals, calls, file_at_start>>

\* if update_version(latest, dry_run=args.dry_run): exit 0, else exit 1
Main_Update ==
  /\ pc = "update"
  /\ \E w \in WriteResults : update_version(latest.val, args.dry_run, w)
  /\ UNCHANGED <<runs, args, current, latest, url_parsed, fetched,
                 file_at_start>>

Next ==
  \/ StartRun
  \/ Main_ReadCurrent
  \/ Main_ResolveVersion
  \/ Main_ResolveUrl
  \/ Main_ResolveFetch
  \/ Main_Compare
  \/ Main_Update

Spec == Init /\ [][Next]_vars

----------------------------------------------------------------------------
\* Properties

TypeOK ==
  /\ pc \in {"idle", "read", "resolve", "compare", "update", "exit"}
  /\ runs \in 0..MaxRuns
  /\ args \in Args
  /\ exit_code \in {-1, 0, 1}
  /\ (pc = "exit") = (exit_code # -1)

\* update_version computed new_content and it differs from content.
Changed == content.some /\ new_content.some /\ new_content.val # content.val

\* main got past the read of the current version and resolved (or failed to
\* resolve) a version source.
Resolved ==
  /\ pc \in {"compare", "update", "exit"}
  /\ Truthy(current)

\* t with the version token of its first VERSION_PATTERN match replaced by
\* v, character for character, and nothing else changed.
OnlyFirstVersionReplaced(t, v) ==
  LET i == VERSION_PATTERN_find(t, 1)
      e == VERSION_PATTERN_end(t, i)
  IN SubSeq(t, 1, i + Len(AG) - 1) \o v \o SubSeq(t, e, Len(t))

\* C1: in a run started with --check the tracked file is never written: at
\* every point of the run, and so at exit, it is what it was at the start,
\* whatever the source and the outcome.
C1_CheckNeverWrites ==
  (pc # "idle" /\ args.check) => (file = file_at_start /\ writes = 0)

\* A --check run (without --dry-run) that found an update available.
C1_Witness ==
  /\ pc = "exit" /\ args.check /\ ~args.dry_run
  /\ outcome = "UpdateAvailable" /\ exit_code = 1
  /\ file_at_start.exists

\* C2: in a run started with --dry-run the tracked file is never written,
\* and when update_version finds the substitution changes the contents
\* (changed = true) the run reports the would-be change and exits 0.
C2_DryRunNeverWrites ==
  (pc # "idle" /\ args.dry_run) =>
    /\ file = file_at_start
    /\ writes = 0
    /\ Changed => (pc = "exit" /\ outcome = "WouldUpdate" /\ exit_code = 0)

\* A --dry-run run in which the substitution would change the file.
C2_Witness ==
  /\ pc = "exit" /\ args.dry_run /\ Changed
  /\ outcome = "WouldUpdate"
  /\ current # latest

\* C3: a run exits 0 exactly when current equals latest, or the update was
\* applied, or it was dry-run-reported; otherwise it exits 1; no other exit
\* code occurs.
C3_ExitCodes ==
  pc = "exit" =>
    /\ exit_code \in {0, 1}
    /\ (exit_code = 0) <=>
         \/ (Truthy(current) /\ Truthy(latest) /\ current.val = latest.val)
         \/ (writes = 1 /\ file = Present(new_content.val) /\ outcome = "Updated")
         \/ (args.dry_run /\ outcome = "WouldUpdate")

\* C4: exactly one source is resolved, by presence: --version present means
\* latest is its value and neither the URL parser nor the fetch ran;
\* --version absent and --url present means the URL was parsed and the
\* fetch did not run; the fetch runs only when both are absent.  For every
\* flag value, the empty string included.
C4_SourceByPresence ==
  Resolved =>
    /\ args.version.some =>
         (latest = args.version /\ url_parsed = 0 /\ fetched = 0)
    /\ (~args.version.some /\ args.url.some) =>
         (url_parsed = 1 /\ fetched = 0)
    /\ fetched > 0 => (~args.version.some /\ ~args.url.some)

\* C5: after a successful update to V the file holds exactly V in the place
\* of the version it was read from, and is otherwise unchanged.
C5_OnlyVersionChanged ==
  (pc = "exit" /\ outcome = "Updated") =>
    file.text = OnlyFirstVersionReplaced(file_at_start.text, latest.val)

\* C6: after the file was patched to X, reading the current version back
\* yields X.
C6_RoundTrip ==
  (pc = "exit" /\ outcome = "Updated") => get_current_version(file) = latest

\* C7: substituting the version that get_current_version returns for a
\* content leaves that content unchanged (changed = false).
C7_Idempotent ==
  (file.exists /\ get_current_version(file).some) =>
    VERSION_PATTERN_sub(AG \o get_current_version(file).val, file.text)
      = Some(file.text)

\* C8: when the tracked file does not exist at the start of a run, the run
\* exits 1 straight after the read step: no source is resolved, nothing is
\* compared, and no file is created or written.
C8_MissingFileStops ==
  (pc # "idle" /\ ~file_at_start.exists) =>
    /\ pc \in {"read", "exit"}
    /\ pc = "exit" => (exit_code = 1 /\ outcome = "MissingFile")
    /\ ~latest.some /\ ~content.some
    /\ url_parsed = 0 /\ fetched = 0 /\ reads = 0 /\ writes = 0
    /\ ~file.exists

\* A run on a missing file, with a version source on the command line.
C8_Witness ==
  /\ pc = "exit" /\ ~file_at_start.exists
  /\ exit_code = 1
  /\ Truthy(args.url) /\ ~args.check

\* C9 as stated: the file is read once per run and written at most once,
\* what is substituted being the contents the current version was read from.
C9_ReadOnce ==
  pc # "idle" =>
    /\ reads <= 1
    /\ writes <= 1
    /\ content.some => content.val = file_at_start.text

\* C9 amended: the file is read at most twice per run (once by
\* get_current_version and, when update_version runs on an existing file,
\* once more by it) and written at most once; the second read returns the
\* contents the current version was read from, the write follows that
\* second read with no read after it, and what a successful write leaves
\* is the substitution of those contents.
C9_ReadTwiceWriteOnce ==
  pc # "idle" =>
    /\ reads <= 2
    /\ writes <= 1
    /\ content.some <=> reads = 2
    /\ content.some => content.val = file_at_start.text
    /\ writes = 1 => (reads = 2 /\ Changed /\ ~args.dry_run)
    /\ outcome = "Updated" => (writes = 1 /\ file.text = new_content.val)

\* A run that read the file twice and wrote it once.
C9_Witness ==
  pc = "exit" /\ reads = 2 /\ writes = 1 /\ outcome = "Updated"

\* C10: a run started on a file with a readable antigravity/<version> ends
\* with the file still readable, so the next run's read step finds a version.
C10_StaysReadable ==
  (pc = "exit" /\ get_current_version(file_at_start).some) =>
    get_current_version(file).some

====
